---- MODULE Spec2Model ----
(***************************************************************************)
(* Model of gizmo's mupdf.ExtractStructuredText (src/mupdf/mupdf_adapter.go)*)
(* and of its unbatched predecessor (src/unnamed/part_002).                *)
(*                                                                         *)
(* Representation                                                          *)
(*   - a Go string is a sequence of one-character strings;                 *)
(*   - a float64 font size is a fixed-point number counted in units of eps *)
(*     (half points): 24 stands for 12.0, 25 for 12.5.  Font sizes of the  *)
(*     model are small and non-negative, as mutool reports them;           *)
(*   - a nil slice and an empty slice are both <<>>; a nil error is "";    *)
(*   - an error is its message, a TLA+ string;                             *)
(*   - the external commands of a run are numbered: 0 is `mutool info`,    *)
(*     k >= 1 is the k-th `mutool draw`; what the environment does to them *)
(*     (a failing subprocess, a malformed output, a cancelled context) is  *)
(*     the input `fault` of the run.                                       *)
(***************************************************************************)
EXTENDS Integers, Sequences, FiniteSets

VARIABLES
    doc,            \* the PDF: the pages mutool decodes, in page order
    batchSize,      \* pages requested per mutool call
    fault,          \* the command the environment makes fail, and how
    pc,             \* position of ExtractStructuredText
    err,            \* returned error ("" is nil)
    ret,            \* returned []StructuredBlock
    pageCount,
    start,          \* first page of the current batch (loop variable)
    pages,          \* the decoded batch of pass 2
    loaded,         \* TRUE while pass 2 ranges over `pages`
    i,              \* index of the current page within the batch (0-based)
    j,              \* index of the next block within that page (1-based)
    freq,           \* rounded font size -> occurrences
    titleSize, sectionSize, subSize,
    curTitle, curSection, curSubsection,
    aggHierarchy, aggPage, aggBuilder,
    blocks,
    aggParas,       \* history: the body paragraphs now in aggBuilder
    blockParas,     \* history: the body paragraphs of each emitted block
    headings,       \* history: the number of heading blocks processed
    lastClass,      \* history: what the last processed block was treated as
    requests,       \* history: the calls of loadPagesBatch, in order
    registry,       \* package core: alias -> Processor factory
    mu,             \* package core: the sync.RWMutex guarding registry
    frames,         \* the call of Register, Get or Must each goroutine makes
    made,           \* history: the number of factory calls made so far
    opts,           \* the arguments of a call of BuildConfig
    cfg,            \* the Config that BuildConfig builds
    oi,             \* BuildConfig: the number of options already ranged over
    bpc,            \* BuildConfig: its position
    binPath,        \* package mupdf: var binPath string
    binErr,         \* package mupdf: var binErr error
    once,           \* package mupdf: var once sync.Once
    dframes,        \* the call of discover each goroutine makes
    environ,        \* $MUPDF_BIN, GOOS, the executables and mutool --version
    ran,            \* history: how often the search and the version check ran
    returned        \* history: the (path, error) pairs discover has returned

vars == <<doc, batchSize, fault, pc, err, ret, pageCount, start, pages, loaded, i, j,
          freq, titleSize, sectionSize, subSize,
          curTitle, curSection, curSubsection,
          aggHierarchy, aggPage, aggBuilder, blocks,
          aggParas, blockParas, headings, lastClass, requests,
          registry, mu, frames, made, opts, cfg, oi, bpc,
          binPath, binErr, once, dframes, environ, ran, returned>>

(***************************************************************************)
(* Bounds of the model.                                                    *)
(***************************************************************************)
MaxPages == 2
MaxBlocks == 4
MaxOpts == 3
MaxCalls == 2

(***************************************************************************)
(* Numbers.                                                                *)
(***************************************************************************)
\* const eps = 0.5, in the fixed-point unit (one unit is half a point)
eps == 1
\* fixed-point units per point
Scale == 2 * eps

Max(S) == CHOOSE m \in S : \A x \in S : x <= m

\* math.Round: nearest integer, halves away from zero
Round(x) ==
    IF x >= 0 THEN (2 * x + Scale) \div (2 * Scale)
              ELSE 0 - ((2 * (0 - x) + Scale) \div (2 * Scale))

\* float64(n) of an int n
Float(n) == n * Scale

(***************************************************************************)
(* Strings.                                                                *)
(***************************************************************************)
IsSpace(c) == c \in {" ", "\n", "\t", "\r"}

RECURSIVE TrimLeft(_)
TrimLeft(s) ==
    IF s # <<>> /\ IsSpace(Head(s)) THEN TrimLeft(Tail(s)) ELSE s

RECURSIVE TrimRight(_)
TrimRight(s) ==
    IF s # <<>> /\ IsSpace(s[Len(s)])
    THEN TrimRight(SubSeq(s, 1, Len(s) - 1))
    ELSE s

\* strings.TrimSpace
TrimSpace(s) == TrimRight(TrimLeft(s))

\* strings.Join
RECURSIVE Join(_, _)
Join(parts, sep) ==
    IF parts = <<>> THEN <<>>
    ELSE IF Len(parts) = 1 THEN parts[1]
    ELSE parts[1] \o sep \o Join(Tail(parts), sep)

HierarchySep == <<" ", "|", " ">>
\* mutation of ParagraphSep: paragraphs joined by a single newline
ParagraphSepNewline == <<"\n">>
ParagraphSep == <<"\n", "\n">>

(***************************************************************************)
(* The decoded document (stext_json.go).                                   *)
(***************************************************************************)
Line(size, text) == [Size |-> size, Text |-> text]
Block(type, lines) == [Type |-> type, Lines |-> lines]

\* The blocks documents of the model are made of.
BlockA == Block("text", <<Line(32, <<"A">>)>>)
BlockB == Block("text", <<Line(26, <<" ", "B">>), Line(24, <<" ">>)>>)
BlockY == Block("text", <<Line(20, <<"x", " ">>), Line(20, <<" ", "y">>)>>)
BlockW == Block("text", <<Line(24, <<" ">>)>>)
BlockI == Block("image", <<Line(32, <<"A">>)>>)
\* A document is made of two kinds of heading and of paragraphs, or of one
\* kind of heading, of paragraphs and of one kind of block that pass 2 skips.
Palettes ==
    {{BlockA, BlockB, BlockY}, {BlockA, BlockY, BlockW}, {BlockA, BlockY, BlockI}}

RECURSIVE SeqsUpTo(_, _)
SeqsUpTo(S, n) ==
    IF n = 0 THEN {<<>>}
    ELSE LET shorter == SeqsUpTo(S, n - 1)
         IN  shorter \cup {Append(s, x) : s \in {t \in shorter : Len(t) = n - 1}, x \in S}

\* where pages 1..p-1 end in a run of len blocks: p-1 cuts, in order
Cuts(p, len) ==
    {c \in [1..(p - 1) -> 0..len] : \A k \in 1..(p - 2) : c[k] <= c[k + 1]}

\* the p pages (p >= 1) a run of blocks is cut into
Paginate(flat, c, p) ==
    [k \in 1..p |->
        SubSeq(flat,
               (IF k = 1 THEN 0 ELSE c[k - 1]) + 1,
               IF k = p THEN Len(flat) ELSE c[k])]

(***************************************************************************)
(* Pass 1: the font histogram and the thresholds.                          *)
(***************************************************************************)
\* freq[sz]++
Incr(f, sz) ==
    [k \in DOMAIN f \cup {sz} |->
        IF k = sz THEN (IF sz \in DOMAIN f THEN f[sz] + 1 ELSE 1) ELSE f[k]]

\* mutation of Bucket: the size rounded without eps
BucketNoEps(size) == Round(size)

\* the histogram bucket of a line: int(math.Round(ln.Font.Size + eps))
Bucket(size) == Round(size + eps)

RECURSIVE AddLines(_, _)
AddLines(f, lines) ==
    IF lines = <<>> THEN f
    ELSE AddLines(Incr(f, Bucket(Head(lines).Size)), Tail(lines))

\* mutation of updateFontFreq: the lines of every block are counted
RECURSIVE updateFontFreqAllBlocks(_, _)
updateFontFreqAllBlocks(f, page) ==
    IF page = <<>> THEN f
    ELSE updateFontFreqAllBlocks(AddLines(f, Head(page).Lines), Tail(page))

\* updateFontFreq(freq, page)
RECURSIVE updateFontFreq(_, _)
updateFontFreq(f, page) ==
    IF page = <<>> THEN f
    ELSE LET blk == Head(page)
         IN  updateFontFreq(IF blk.Type # "text" THEN f ELSE AddLines(f, blk.Lines),
                            Tail(page))

\* for _, page := range pages { updateFontFreq(freq, page) }
RECURSIVE UpdateAll(_, _)
UpdateAll(f, ps) ==
    IF ps = <<>> THEN f ELSE UpdateAll(updateFontFreq(f, Head(ps)), Tail(ps))

\* mutation of SortDesc: the sizes in ascending order
RECURSIVE SortAsc(_)
SortAsc(S) ==
    IF S = {} THEN <<>> ELSE LET m == Max(S) IN SortAsc(S \ {m}) \o <<m>>

\* sort.Sort(sort.Reverse(sort.IntSlice(sizes)))
RECURSIVE SortDesc(_)
SortDesc(S) ==
    IF S = {} THEN <<>> ELSE LET m == Max(S) IN <<m>> \o SortDesc(S \ {m})

ErrNoText == "no text detected in PDF"
ErrEmptyPDF == "empty PDF or page count undetected"

\* mutation of thresholdsFromFreq: with three or more sizes the subsection
\* threshold is the smallest size
thresholdsSmallestSub(f) ==
    LET sizes == SortDesc(DOMAIN f)
    IN  IF Len(sizes) = 0
        THEN [title |-> 0, section |-> 0, sub |-> 0, err |-> ErrNoText]
        ELSE IF Len(sizes) = 1
        THEN [title |-> Float(sizes[1]), section |-> 0, sub |-> 0, err |-> ""]
        ELSE IF Len(sizes) = 2
        THEN [title |-> Float(sizes[1]), section |-> Float(sizes[2]), sub |-> 0,
              err |-> ""]
        ELSE [title |-> Float(sizes[1]), section |-> Float(sizes[2]),
              sub |-> Float(sizes[Len(sizes)]), err |-> ""]

\* mutation of thresholdsFromFreq: an empty histogram is not an error
thresholdsEmptyOk(f) ==
    LET sizes == SortDesc(DOMAIN f)
    IN  IF Len(sizes) = 0
        THEN [title |-> 0, section |-> 0, sub |-> 0, err |-> ""]
        ELSE IF Len(sizes) = 1
        THEN [title |-> Float(sizes[1]), section |-> 0, sub |-> 0, err |-> ""]
        ELSE IF Len(sizes) = 2
        THEN [title |-> Float(sizes[1]), section |-> Float(sizes[2]), sub |-> 0,
              err |-> ""]
        ELSE [title |-> Float(sizes[1]), section |-> Float(sizes[2]),
              sub |-> Float(sizes[3]), err |-> ""]

thresholdsFromFreq(f) ==
    LET sizes == SortDesc(DOMAIN f)
    IN  IF Len(sizes) = 0
        THEN [title |-> 0, section |-> 0, sub |-> 0, err |-> ErrNoText]
        ELSE IF Len(sizes) = 1
        THEN [title |-> Float(sizes[1]), section |-> 0, sub |-> 0, err |-> ""]
        ELSE IF Len(sizes) = 2
        THEN [title |-> Float(sizes[1]), section |-> Float(sizes[2]), sub |-> 0,
              err |-> ""]
        ELSE [title |-> Float(sizes[1]), section |-> Float(sizes[2]),
              sub |-> Float(sizes[3]), err |-> ""]

\* loadPagesBatch(ctx, bin, pdfPath, from, to)
loadPagesBatch(from, to) == SubSeq(doc, from, to)

Min(a, b) == IF a <= b THEN a ELSE b

\* end := min(start+batchSize-1, pageCount)
BatchEnd == Min(start + batchSize - 1, pageCount)

\* mutation of NextStart: the loop advances by one page
NextStartByOne == start + 1

\* start += batchSize
NextStart == start + batchSize

(***************************************************************************)
(* The environment of a run.  A fault names one external command and what  *)
(* happens to it: the subprocess exits with an error ("run"), its output   *)
(* cannot be parsed ("output"), ctx is already done when the command is to *)
(* start ("cancel"), or ctx is cancelled while the command runs and the    *)
(* subprocess is killed ("killed").  A run ends at its first failing       *)
(* command, so one fault describes it.                                     *)
(***************************************************************************)
FaultKinds == {"run", "output", "cancel", "killed"}

NoFault == [at |-> -1, kind |-> "none"]

\* a run over P pages issues at most 2P `mutool draw` commands
Faults == {NoFault} \cup [at : 0..(2 * MaxPages), kind : FaultKinds]

\* mutation of Started: the command is built without the context
StartedWithoutCtx(k) == TRUE

\* exec.CommandContext(ctx, ...): whether command k is started; it is not
\* when ctx is done beforehand
Started(k) == ~(fault.at = k /\ fault.kind = "cancel")

\* the error of cmd.Run() or cmd.Output() for command k
RunError(k) ==
    IF fault.at # k THEN ""
    ELSE CASE fault.kind = "run" -> "exit status 1"
           [] fault.kind = "cancel" -> "context canceled"
           [] fault.kind = "killed" -> "signal: killed"
           [] OTHER -> ""

\* the verb %d of fmt, for a number that is not negative
Digit(d) ==
    CASE d = 0 -> "0" [] d = 1 -> "1" [] d = 2 -> "2" [] d = 3 -> "3" [] d = 4 -> "4"
      [] d = 5 -> "5" [] d = 6 -> "6" [] d = 7 -> "7" [] d = 8 -> "8" [] d = 9 -> "9"

RECURSIVE Itoa(_)
Itoa(n) == IF n < 10 THEN Digit(n) ELSE Itoa(n \div 10) \o Digit(n % 10)

\* pageRange := fmt.Sprintf("%d-%d", from, to)
PageRange(from, to) == Itoa(from) \o "-" \o Itoa(to)

\* the error of loadPagesBatch(ctx, bin, pdfPath, from, to) run as command k
loadPagesBatchErr(k, from, to) ==
    IF RunError(k) # ""
    THEN "mutool draw for pages " \o PageRange(from, to) \o ": " \o RunError(k)
    ELSE IF fault.at = k /\ fault.kind = "output"
    THEN "unmarshal pages " \o PageRange(from, to) \o ": unexpected end of JSON input"
    ELSE ""

\* the error of GetPageCount(ctx, pdfPath), which runs command 0
GetPageCountErr ==
    IF RunError(0) # ""
    THEN "mupdf info error: " \o RunError(0)
    ELSE IF fault.at = 0 /\ fault.kind = "output"
    THEN "page count not found in info output"
    ELSE ""

\* mutation of PassError: the error of loadPagesBatch is returned as it is
PassErrorUnwrapped(n, from, to, e) == e

\* fmt.Errorf("pass-%d (pages %d-%d): %w", start, end, err), the pass number
\* being part of the format string
PassError(n, from, to, e) ==
    "pass-" \o Itoa(n) \o " (pages " \o Itoa(from) \o "-" \o Itoa(to) \o "): " \o e

\* mutation of NilBlocks: the blocks emitted so far are returned with the error
PartialBlocks(bl) == bl

\* `return nil, err`: what is returned in place of the local `blocks`
NilBlocks(bl) == <<>>

\* mutation of IsEmptyPDF: the page count is not checked
IsEmptyPDFNever(n) == FALSE

\* if pageCount == 0
IsEmptyPDF(n) == n = 0

\* the call of loadPagesBatch that runs as command k, for the history
Request(n, from, to, k) ==
    [Pass |-> n, From |-> from, To |-> to, Started |-> Started(k)]

(***************************************************************************)
(* Pass 2: the closures of ExtractStructuredText.                          *)
(***************************************************************************)
\* mutation of classify: the levels without threshold are not excluded
classifyUnguarded(sz) ==
    IF sz >= titleSize THEN "Title"
    ELSE IF sz >= sectionSize THEN "Section"
    ELSE IF sz >= subSize THEN "Subsection"
    ELSE ""

classify(sz) ==
    IF titleSize > 0 /\ sz >= titleSize THEN "Title"
    ELSE IF sectionSize > 0 /\ sz >= sectionSize THEN "Section"
    ELSE IF subSize > 0 /\ sz >= subSize THEN "Subsection"
    ELSE ""

\* buildHierarchy over a heading triple
Hierarchy(t, s, u) ==
    Join((IF t # <<>> THEN <<t>> ELSE <<>>) \o
         (IF s # <<>> THEN <<s>> ELSE <<>>) \o
         (IF u # <<>> THEN <<u>> ELSE <<>>), HierarchySep)

buildHierarchy == Hierarchy(curTitle, curSection, curSubsection)

StructuredBlock(h, t, p) == [HeaderHierarchy |-> h, Text |-> t, PageNumber |-> p]

\* mutation of flush: a block is emitted whether or not the buffer is empty
flushUnguarded ==
    [blocks |-> Append(blocks,
                  StructuredBlock(aggHierarchy, TrimSpace(aggBuilder), aggPage)),
     aggBuilder |-> <<>>,
     blockParas |-> Append(blockParas, aggParas),
     aggParas |-> <<>>]

\* mutation of flush: the emitted block replaces the output
flushReplacing ==
    IF aggBuilder = <<>>
    THEN [blocks |-> blocks, aggBuilder |-> aggBuilder,
          blockParas |-> blockParas, aggParas |-> aggParas]
    ELSE [blocks |-> <<StructuredBlock(aggHierarchy, TrimSpace(aggBuilder), aggPage)>>,
          aggBuilder |-> <<>>,
          blockParas |-> <<aggParas>>,
          aggParas |-> <<>>]

\* the aggregate after flush(): the emitted blocks and the buffer
flush ==
    IF aggBuilder = <<>>
    THEN [blocks |-> blocks, aggBuilder |-> aggBuilder,
          blockParas |-> blockParas, aggParas |-> aggParas]
    ELSE [blocks |-> Append(blocks,
                      StructuredBlock(aggHierarchy, TrimSpace(aggBuilder), aggPage)),
          aggBuilder |-> <<>>,
          blockParas |-> Append(blockParas, aggParas),
          aggParas |-> <<>>]

noFlush ==
    [blocks |-> blocks, aggBuilder |-> aggBuilder,
     blockParas |-> blockParas, aggParas |-> aggParas]

\* mutation of HeadingFlush: a Subsection heading does not flush
HeadingFlushNotSub(class) == IF class = "Subsection" THEN noFlush ELSE flush

\* the flush() that opens each case of the switch over the heading level
HeadingFlush(class) == flush

\* mutation of FinalFlush: the pending aggregate is dropped
FinalFlushSkipped == noFlush

\* the flush() after the pass-2 loop
FinalFlush == flush

\* maxSize of a block: the largest line size, from 0
RECURSIVE MaxSize(_)
MaxSize(lines) ==
    IF lines = <<>> THEN 0
    ELSE LET m == MaxSize(SubSeq(lines, 1, Len(lines) - 1))
             sz == lines[Len(lines)].Size
         IN  IF sz > m THEN sz ELSE m

\* lineBuilder after the lines of a block
RECURSIVE LineBuilder(_)
LineBuilder(lines) ==
    IF lines = <<>> THEN <<>>
    ELSE LET t == TrimSpace(lines[Len(lines)].Text)
             before == LineBuilder(SubSeq(lines, 1, Len(lines) - 1))
         IN  IF t # <<>> THEN before \o t \o <<" ">> ELSE before

BlockText(blk) == TrimSpace(LineBuilder(blk.Lines))

\* mutation of HeadingAfter: a Section keeps the current Subsection
HeadingAfterKeepsSub(class, text) ==
    CASE class = "Title" -> <<text, <<>>, <<>>>>
      [] class = "Section" -> <<curTitle, text, curSubsection>>
      [] class = "Subsection" -> <<curTitle, curSection, text>>

\* the heading triple after a heading block of the given level and text
HeadingAfter(class, text) ==
    CASE class = "Title" -> <<text, <<>>, <<>>>>
      [] class = "Section" -> <<curTitle, text, <<>>>>
      [] class = "Subsection" -> <<curTitle, curSection, text>>

\* mutation of BodyDiscarded: body before any header is kept
BodyDiscardedNever(h) == FALSE

\* if h == "" { continue }: body before any header
BodyDiscarded(h) == h = <<>>

\* mutation of AbsPage: the first page of the batch
AbsPageBatchStart == start

\* mutation of AbsPage: the page's position within the batch
AbsPageInBatch == i + 1

\* mutation of AbsPage: the zero-based page start + i - 1
AbsPageZeroBased == start + i - 1

\* the absolute page of the current block: start + i
AbsPage == start + i

\* mutation of BlockClass: a text block without text is not skipped
BlockClassKeepsEmpty(blk) ==
    IF blk.Type # "text" THEN "skip"
    ELSE LET c == classify(MaxSize(blk.Lines)) IN IF c = "" THEN "Body" ELSE c

\* what the pass-2 loop body does with a block: "skip" for the two continue
\* statements at its top, else "Title", "Section", "Subsection" or "Body"
BlockClass(blk) ==
    IF blk.Type # "text" THEN "skip"
    ELSE IF BlockText(blk) = <<>> THEN "skip"
    ELSE LET c == classify(MaxSize(blk.Lines)) IN IF c = "" THEN "Body" ELSE c

(***************************************************************************)
(* The unbatched ExtractStructuredText of src/unnamed/part_002: the whole  *)
(* document is decoded by one mutool call.  Its aggregator state is the    *)
(* record st.                                                              *)
(***************************************************************************)
\* computeFontThresholds(&doc)
computeFontThresholds(d) ==
    LET f == UpdateAll(<<>>, d)
        sizes == SortDesc(DOMAIN f)
    IN  IF Len(sizes) = 0
        THEN [title |-> 0, section |-> 0, sub |-> 0, err |-> ErrNoText]
        ELSE IF Len(sizes) = 1
        THEN [title |-> Float(sizes[1]), section |-> 0, sub |-> 0, err |-> ""]
        ELSE IF Len(sizes) = 2
        THEN [title |-> Float(sizes[1]), section |-> Float(sizes[2]), sub |-> 0,
              err |-> ""]
        ELSE [title |-> Float(sizes[1]), section |-> Float(sizes[2]),
              sub |-> Float(sizes[3]), err |-> ""]

V1Classify(th, sz) ==
    IF th.title > 0 /\ sz >= th.title THEN "Title"
    ELSE IF th.section > 0 /\ sz >= th.section THEN "Section"
    ELSE IF th.sub > 0 /\ sz >= th.sub THEN "Subsection"
    ELSE ""

V1Init ==
    [curTitle |-> <<>>, curSection |-> <<>>, curSubsection |-> <<>>,
     aggHierarchy |-> <<>>, aggPage |-> 0, aggBuilder |-> <<>>, blocks |-> <<>>]

V1Flush(st) ==
    IF st.aggBuilder = <<>> THEN st
    ELSE [st EXCEPT
            !.blocks = Append(@, StructuredBlock(st.aggHierarchy,
                                                 TrimSpace(st.aggBuilder), st.aggPage)),
            !.aggBuilder = <<>>]

\* the loop body for one block of the page with index pageIdx (0-based)
V1Block(st, th, blk, pageIdx) ==
    IF blk.Type # "text" THEN st
    ELSE LET text == BlockText(blk)
             class == V1Classify(th, MaxSize(blk.Lines))
         IN  IF text = <<>> THEN st
             ELSE IF class = "Title"
             THEN [V1Flush(st) EXCEPT !.curTitle = text, !.curSection = <<>>,
                                      !.curSubsection = <<>>]
             ELSE IF class = "Section"
             THEN [V1Flush(st) EXCEPT !.curSection = text, !.curSubsection = <<>>]
             ELSE IF class = "Subsection"
             THEN [V1Flush(st) EXCEPT !.curSubsection = text]
             ELSE LET hierarchy == Hierarchy(st.curTitle, st.curSection,
                                             st.curSubsection)
                      s1 == IF hierarchy # st.aggHierarchy
                            THEN [V1Flush(st) EXCEPT !.aggHierarchy = hierarchy,
                                                     !.aggPage = pageIdx + 1]
                            ELSE st
                  IN  IF hierarchy = <<>> THEN st
                      ELSE [s1 EXCEPT !.aggBuilder =
                                (IF @ # <<>> THEN @ \o ParagraphSep ELSE @) \o text]

RECURSIVE V1Page(_, _, _, _)
V1Page(st, th, blks, pageIdx) ==
    IF blks = <<>> THEN st
    ELSE V1Page(V1Block(st, th, Head(blks), pageIdx), th, Tail(blks), pageIdx)

RECURSIVE V1Pages(_, _, _, _)
V1Pages(st, th, d, pageIdx) ==
    IF pageIdx >= Len(d) THEN st
    ELSE V1Pages(V1Page(st, th, d[pageIdx + 1], pageIdx), th, d, pageIdx + 1)

\* the result of the unbatched ExtractStructuredText on document d
V1Extract(d) ==
    LET th == computeFontThresholds(d)
    IN  IF th.err # "" THEN [blocks |-> <<>>, err |-> th.err]
        ELSE [blocks |-> V1Flush(V1Pages(V1Init, th, d, 0)).blocks, err |-> ""]

(***************************************************************************)
(* Package core: the registry (core_registry.go) and the Config            *)
(* (core_config.go).  A factory is its name, "nil" for a nil func; a       *)
(* Processor is the factory call that made it; a map is a function and a   *)
(* flag telling whether it is nil; a *slog.Logger is its name, "nil" for a *)
(* nil pointer; a panic is its value, "" when the call did not panic.      *)
(***************************************************************************)
registryVars == <<registry, mu, frames, made>>
configVars == <<opts, cfg, oi, bpc>>
coreVars == <<registryVars, configVars>>

\* the goroutines that call into the registry
Goroutines == {1, 2, 3}

\* registry = make(map[string]func() Processor)
EmptyRegistry == [a \in {} |-> "nil"]

\* a sync.RWMutex: the goroutine holding the write lock (0: none) and the
\* goroutines holding a read lock
Unlocked == [w |-> 0, r |-> {}]

NilFactory == "nil"
NilProcessor == [factory |-> NilFactory, id |-> 0]

\* var ErrNotFound = errors.New("gizmo: processor not found")
ErrNotFound == "gizmo: processor not found"

\* a goroutine that has made no call
NoCall ==
    [op |-> "none", alias |-> "", factory |-> NilFactory, at |-> "idle",
     seen |-> {}, ok |-> FALSE, fn |-> NilFactory,
     proc |-> NilProcessor, err |-> "", panic |-> ""]

\* &Config{}: the zero Config
NilMap == [nil |-> TRUE, kv |-> <<>>]
ZeroConfig ==
    [Pages |-> <<>>, Format |-> "", Extra |-> NilMap, WorkDir |-> "", Logger |-> "nil"]

\* package core when no call is in progress
CoreIdle ==
    /\ registry = EmptyRegistry
    /\ mu = Unlocked
    /\ frames = [g \in Goroutines |-> NoCall]
    /\ made = 0
    /\ opts = <<>>
    /\ cfg = ZeroConfig
    /\ oi = 0
    /\ bpc = "idle"

(***************************************************************************)
(* Package mupdf: discover (mupdf_adapter.go).  A path, the value of an    *)
(* environment variable and the output of a command are sequences of       *)
(* characters; an error is its message, "" for nil.                        *)
(***************************************************************************)
discoverVars == <<binPath, binErr, once, dframes, environ, ran, returned>>

\* the goroutines that call discover
Callers == {1, 2}

Mutool == <<"m", "u", "t", "o", "o", "l">>

\* exe := "mutool"; if runtime.GOOS == "windows" { exe += ".exe" }
Exe(goos) ==
    IF goos = "windows" THEN Mutool \o <<".", "e", "x", "e">> ELSE Mutool

\* a value of $MUPDF_BIN that names an executable, given with white space
OptMutool == <<" ", "/", "o", "/", "m", " ">>

\* envOr(key, def): the variable when it is set, else the default
envOr(v, def) == IF v.ok THEN v.v ELSE def

\* the candidates of the search: $MUPDF_BIN trimmed when not empty, then exe
Candidates(e) ==
    LET env == TrimSpace(envOr(e.MUPDF_BIN, <<>>))
    IN  (IF env # <<>> THEN <<env>> ELSE <<>>) \o <<Exe(e.GOOS)>>

\* exec.LookPath(c): a name with a slash is tried as it is, another one is
\* looked for in $PATH, whose directory /b/ holds the executables
LookPath(c, installed) ==
    IF c \notin installed THEN [p |-> <<>>, err |-> "executable file not found in $PATH"]
    ELSE [p |-> IF \E n \in 1..Len(c) : c[n] = "/" THEN c ELSE <<"/", "b", "/">> \o c,
          err |-> ""]

\* for _, c := range candidates { if p, err := exec.LookPath(c); err == nil
\* { binPath = p; break } }: binPath after the loop
RECURSIVE Search(_, _, _)
Search(cands, installed, path) ==
    IF cands = <<>> THEN path
    ELSE LET l == LookPath(Head(cands), installed)
         IN  IF l.err = "" THEN l.p ELSE Search(Tail(cands), installed, path)

\* errors.New("MuPDF CLI (mutool) not found ..."), its dash written "-"
ErrNoMutool == "MuPDF CLI (mutool) not found - install mupdf-tools or set $MUPDF_BIN"

\* the string of a sequence of characters
RECURSIVE Str(_)
Str(s) == IF s = <<>> THEN "" ELSE Head(s) \o Str(Tail(s))

\* strings.Fields
RECURSIVE Fields(_)
Fields(s) ==
    LET t == TrimLeft(s)
        end == IF \E n \in 1..Len(t) : IsSpace(t[n])
               THEN (CHOOSE n \in 1..Len(t) :
                        IsSpace(t[n]) /\ \A m \in 1..(n - 1) : ~IsSpace(t[m])) - 1
               ELSE Len(t)
    IN  IF t = <<>> THEN <<>>
        ELSE <<SubSeq(t, 1, end)>> \o Fields(SubSeq(t, end + 1, Len(t)))

IsDigit(c) == c \in {"0", "1", "2", "3", "4", "5", "6", "7", "8", "9"}
DigitVal(c) == CHOOSE d \in 0..9 : Digit(d) = c

\* the value of the digits a string starts with
RECURSIVE ScanDigits(_, _)
ScanDigits(s, acc) ==
    IF s # <<>> /\ IsDigit(Head(s))
    THEN ScanDigits(Tail(s), 10 * acc + DigitVal(Head(s)))
    ELSE acc

\* the verb %d: an optional sign and at least one digit
ScanInt(s) ==
    LET signed == s # <<>> /\ Head(s) \in {"+", "-"}
        digits == IF signed THEN Tail(s) ELSE s
    IN  IF digits = <<>> THEN [n |-> 0, err |-> "unexpected EOF"]
        ELSE IF ~IsDigit(Head(digits)) THEN [n |-> 0, err |-> "expected integer"]
        ELSE [n |-> IF signed /\ Head(s) = "-" THEN 0 - ScanDigits(digits, 0)
                    ELSE ScanDigits(digits, 0),
              err |-> ""]

\* fmt.Sscanf(str, "v%d", &major)
SscanfV(str) ==
    IF str = <<>> THEN [n |-> 0, err |-> "unexpected EOF"]
    ELSE IF Head(str) # "v" THEN [n |-> 0, err |-> "input does not match format"]
    ELSE ScanInt(Tail(str))

\* binErr after checkVersion(path), whose result discover drops
checkVersion(version, e) ==
    IF version.err # "" THEN e
    ELSE LET parts == Fields(version.out)
         IN  IF Len(parts) < 2 THEN e
             ELSE LET sc == SscanfV(parts[2])
                  IN  IF sc.err = "" /\ sc.n < 1
                      THEN "MuPDF version too old (" \o Str(parts[2]) \o ")"
                      ELSE e

\* what `mutool --version` may print, or fail with
VersionOld == [out |-> <<"m", " ", "v", "0", ".", "9", "\n">>, err |-> ""]
VersionNew == [out |-> <<"m", " ", "v", "1", ".", "2", "\n">>, err |-> ""]
VersionWord == [out |-> <<"m", " ", "v", "e", "r", " ", "1", ".", "2", "\n">>, err |-> ""]
VersionShort == [out |-> <<"m", "\n">>, err |-> ""]
VersionFails == [out |-> <<>>, err |-> "exit status 1"]

\* the executables a machine may hold
Executables == {TrimSpace(OptMutool), Exe("linux"), Exe("windows")}

Unset == [ok |-> FALSE, v |-> <<>>]
Set(v) == [ok |-> TRUE, v |-> v]

\* the environments of a process
Environs ==
    [MUPDF_BIN : {Unset, Set(<<" ">>), Set(OptMutool)},
     GOOS : {"linux", "windows"},
     installed : SUBSET Executables,
     version : {VersionOld, VersionNew, VersionWord, VersionShort, VersionFails}]

\* a goroutine that is not in discover
NoDiscover == [at |-> "idle", calls |-> 0, path |-> <<>>, err |-> ""]

\* package mupdf before the first call of discover
DiscoverStart ==
    /\ binPath = <<>>
    /\ binErr = ""
    \* a sync.Once: its done flag and the goroutine holding its mutex (0: none)
    /\ once = [done |-> FALSE, m |-> 0]
    /\ dframes = [g \in Callers |-> NoDiscover]
    /\ ran = [search |-> 0, version |-> 0]
    /\ returned = {}

DiscoverIdle ==
    /\ DiscoverStart
    /\ environ = [MUPDF_BIN |-> Unset, GOOS |-> "linux", installed |-> {Mutool},
                  version |-> VersionNew]

(***************************************************************************)
(* The state machine.                                                      *)
(***************************************************************************)
BatchSizes == {1, 2}

\* the state of a run before its first statement
InitRun ==
    /\ pc = "start"
    /\ err = ""
    /\ ret = <<>>
    /\ pageCount = 0
    /\ start = 0
    /\ pages = <<>>
    /\ loaded = FALSE
    /\ i = 0
    /\ j = 0
    /\ freq = <<>>
    /\ titleSize = 0 /\ sectionSize = 0 /\ subSize = 0
    /\ curTitle = <<>> /\ curSection = <<>> /\ curSubsection = <<>>
    /\ aggHierarchy = <<>> /\ aggPage = 0 /\ aggBuilder = <<>>
    /\ blocks = <<>>
    /\ aggParas = <<>>
    /\ blockParas = <<>>
    /\ headings = 0
    /\ lastClass = "none"
    /\ requests = <<>>

Init ==
    /\ \E p \in 0..MaxPages, flat \in UNION {SeqsUpTo(P, MaxBlocks) : P \in Palettes} :
          IF p = 0
          THEN flat = <<>> /\ doc = <<>>
          ELSE \E c \in Cuts(p, Len(flat)) : doc = Paginate(flat, c, p)
    /\ batchSize \in BatchSizes
    /\ fault = NoFault
    /\ InitRun
    /\ DiscoverIdle
    /\ CoreIdle

\* the runs of the documents over one palette under every fault
InitEnv ==
    /\ \E p \in 0..MaxPages, flat \in SeqsUpTo({BlockA, BlockB, BlockY}, MaxBlocks - 1) :
          IF p = 0
          THEN flat = <<>> /\ doc = <<>>
          ELSE \E c \in Cuts(p, Len(flat)) : doc = Paginate(flat, c, p)
    /\ batchSize \in BatchSizes
    /\ fault \in Faults
    /\ InitRun
    /\ DiscoverIdle
    /\ CoreIdle

(***************************************************************************)
(* The resume of the end-to-end scenario: three pages, a title and the     *)
(* heading "Experience" with its paragraph on page 1, the heading          *)
(* "Education" with its paragraph on page 2, no text on page 3.  The title *)
(* is set in the largest size, the headings in the second largest, the     *)
(* paragraphs in a smaller one.                                            *)
(***************************************************************************)
ResumeTitle == <<"R", "e", "s", "u", "m", "e", " ", "T", "i", "t", "l", "e">>
Experience == <<"E", "x", "p", "e", "r", "i", "e", "n", "c", "e">>
Education == <<"E", "d", "u", "c", "a", "t", "i", "o", "n">>
Body1 == <<"p", "1">>
Body2 == <<"p", "2">>

\* 10.0, 12.0, 12.5, 13.0 and 20.0 points
ResumeSizes == {20, 24, 25, 26, 40}

Resume(t, h, b, last) ==
    << <<Block("text", <<Line(t, ResumeTitle)>>),
         Block("text", <<Line(h, Experience)>>),
         Block("text", <<Line(b, Body1)>>)>>,
       <<Block("text", <<Line(h, Education)>>),
         Block("text", <<Line(b, Body2)>>)>>,
       last >>

InitResume ==
    /\ \E t \in ResumeSizes, h \in ResumeSizes, b \in ResumeSizes,
          last \in {<<>>, <<BlockI>>} :
          /\ t > h /\ h > b
          /\ doc = Resume(t, h, b, last)
    /\ batchSize \in BatchSizes \cup {3}
    /\ fault = NoFault
    /\ InitRun
    /\ DiscoverIdle
    /\ CoreIdle

headingVars == <<curTitle, curSection, curSubsection>>
aggVars == <<aggHierarchy, aggPage, aggBuilder, blocks, aggParas, blockParas>>
thresholdVars == <<titleSize, sectionSize, subSize>>
inputVars == <<doc, batchSize, fault>>
mupdfVars == <<inputVars, pc, err, ret, pageCount, start, pages, loaded, i, j, freq,
               thresholdVars, headingVars, aggVars, headings, lastClass, requests>>

\* pageCount, err := GetPageCount(ctx, pdfPath); the zero-page check
GetPageCount ==
    /\ pc = "start"
    /\ IF GetPageCountErr # ""
       THEN /\ pc' = "done"
            /\ err' = GetPageCountErr
            /\ ret' = NilBlocks(blocks)
            /\ UNCHANGED <<pageCount, start>>
       ELSE /\ pageCount' = Len(doc)
            /\ IF IsEmptyPDF(Len(doc))
               THEN /\ pc' = "done"
                    /\ err' = ErrEmptyPDF
                    /\ ret' = NilBlocks(blocks)
                    /\ start' = start
               ELSE /\ pc' = "pass1"
                    /\ err' = err
                    /\ ret' = ret
                    /\ start' = 1
    /\ UNCHANGED <<inputVars, coreVars, discoverVars, pages, loaded, i, j, freq, thresholdVars,
                   headingVars, aggVars, headings, lastClass, requests>>

\* one iteration of the pass-1 loop
Pass1Batch ==
    /\ pc = "pass1"
    /\ start <= pageCount
    /\ LET k == Len(requests) + 1
           e == loadPagesBatchErr(k, start, BatchEnd)
       IN  /\ requests' = Append(requests, Request(1, start, BatchEnd, k))
           /\ IF e # ""
              THEN /\ pc' = "done"
                   /\ err' = PassError(1, start, BatchEnd, e)
                   /\ ret' = NilBlocks(blocks)
                   /\ UNCHANGED <<freq, start>>
              ELSE /\ freq' = UpdateAll(freq, loadPagesBatch(start, BatchEnd))
                   /\ start' = NextStart
                   /\ UNCHANGED <<pc, err, ret>>
    /\ UNCHANGED <<inputVars, coreVars, discoverVars, pageCount, pages, loaded, i, j,
                   thresholdVars, headingVars, aggVars, headings, lastClass>>

\* the end of the pass-1 loop and thresholdsFromFreq(freq)
ComputeThresholds ==
    /\ pc = "pass1"
    /\ start > pageCount
    /\ LET th == thresholdsFromFreq(freq)
       IN  IF th.err # ""
           THEN /\ pc' = "done"
                /\ err' = th.err
                /\ ret' = NilBlocks(blocks)
                /\ UNCHANGED <<thresholdVars, start>>
           ELSE /\ pc' = "pass2"
                /\ err' = err
                /\ ret' = ret
                /\ titleSize' = th.title
                /\ sectionSize' = th.section
                /\ subSize' = th.sub
                /\ start' = 1
    /\ UNCHANGED <<inputVars, coreVars, discoverVars, pageCount, pages, loaded, i, j, freq,
                   headingVars, aggVars, headings, lastClass, requests>>

\* the head of the pass-2 loop: decode the next batch
Pass2Load ==
    /\ pc = "pass2"
    /\ ~loaded
    /\ start <= pageCount
    /\ LET k == Len(requests) + 1
           e == loadPagesBatchErr(k, start, BatchEnd)
       IN  /\ requests' = Append(requests, Request(2, start, BatchEnd, k))
           /\ IF e # ""
              THEN /\ pc' = "done"
                   /\ err' = PassError(2, start, BatchEnd, e)
                   /\ ret' = NilBlocks(blocks)
                   /\ UNCHANGED <<pages, loaded, i, j>>
              ELSE /\ pages' = loadPagesBatch(start, BatchEnd)
                   /\ loaded' = TRUE
                   /\ i' = 0
                   /\ j' = 1
                   /\ UNCHANGED <<pc, err, ret>>
    /\ UNCHANGED <<inputVars, coreVars, discoverVars, pageCount, start, freq, thresholdVars,
                   headingVars, aggVars, headings, lastClass>>

AtBlock == pc = "pass2" /\ loaded /\ i < Len(pages) /\ j <= Len(pages[i + 1])
CurBlock == pages[i + 1][j]

\* the body of `for _, blk := range page.Blocks`
ProcessBlock ==
    /\ AtBlock
    /\ LET blk == CurBlock
           text == BlockText(blk)
           class == BlockClass(blk)
           h == buildHierarchy
           para == [Text |-> text, Page |-> start + i, Epoch |-> headings, Hier |-> h]
       IN  /\ lastClass' = class
           /\ CASE class = "skip" ->
                    UNCHANGED <<headingVars, aggVars, headings>>
                [] class \in {"Title", "Section", "Subsection"} ->
                    /\ curTitle' = HeadingAfter(class, text)[1]
                    /\ curSection' = HeadingAfter(class, text)[2]
                    /\ curSubsection' = HeadingAfter(class, text)[3]
                    /\ blocks' = HeadingFlush(class).blocks
                    /\ aggBuilder' = HeadingFlush(class).aggBuilder
                    /\ blockParas' = HeadingFlush(class).blockParas
                    /\ aggParas' = HeadingFlush(class).aggParas
                    /\ headings' = headings + 1
                    /\ UNCHANGED <<aggHierarchy, aggPage>>
                [] class = "Body" ->
                    IF BodyDiscarded(h)
                    THEN UNCHANGED <<headingVars, aggVars, headings>>
                    ELSE LET f == IF h # aggHierarchy THEN flush ELSE noFlush
                         IN  /\ aggHierarchy' = h
                             /\ aggPage' = IF h # aggHierarchy THEN AbsPage ELSE aggPage
                             /\ aggBuilder' =
                                    (IF f.aggBuilder # <<>>
                                     THEN f.aggBuilder \o ParagraphSep ELSE <<>>) \o text
                             /\ blocks' = f.blocks
                             /\ blockParas' = f.blockParas
                             /\ aggParas' = Append(f.aggParas, para)
                             /\ UNCHANGED <<headingVars, headings>>
    /\ j' = j + 1
    /\ UNCHANGED <<inputVars, coreVars, discoverVars, pc, err, ret, pageCount, start, pages, loaded, i,
                   freq, thresholdVars, requests>>

\* the end of a page's blocks: the next page of the batch
NextPage ==
    /\ pc = "pass2"
    /\ loaded
    /\ i < Len(pages)
    /\ j > Len(pages[i + 1])
    /\ i' = i + 1
    /\ j' = 1
    /\ UNCHANGED <<inputVars, coreVars, discoverVars, pc, err, ret, pageCount, start, pages, loaded,
                   freq, thresholdVars, headingVars, aggVars, headings, lastClass,
                   requests>>

\* the end of the batch's pages: start += batchSize
EndBatch ==
    /\ pc = "pass2"
    /\ loaded
    /\ i >= Len(pages)
    /\ start' = NextStart
    /\ loaded' = FALSE
    /\ pages' = <<>>
    /\ UNCHANGED <<inputVars, coreVars, discoverVars, pc, err, ret, pageCount, i, j, freq, thresholdVars,
                   headingVars, aggVars, headings, lastClass, requests>>

\* the end of the pass-2 loop: the final flush() and `return blocks, nil`
Finish ==
    /\ pc = "pass2"
    /\ ~loaded
    /\ start > pageCount
    /\ blocks' = FinalFlush.blocks /\ aggBuilder' = FinalFlush.aggBuilder
    /\ blockParas' = FinalFlush.blockParas /\ aggParas' = FinalFlush.aggParas
    /\ ret' = FinalFlush.blocks
    /\ pc' = "done"
    /\ UNCHANGED <<inputVars, coreVars, discoverVars, err, pageCount, start, pages, loaded, i, j, freq,
                   thresholdVars, headingVars, aggHierarchy, aggPage,
                   headings, lastClass, requests>>

Next ==
    \/ GetPageCount
    \/ Pass1Batch
    \/ ComputeThresholds
    \/ Pass2Load
    \/ ProcessBlock
    \/ NextPage
    \/ EndBatch
    \/ Finish

Spec == Init /\ [][Next]_vars

SpecResume == InitResume /\ [][Next]_vars

SpecEnv == InitEnv /\ [][Next]_vars

(***************************************************************************)
(* The registry of package core under concurrent calls: every goroutine    *)
(* makes one call of Register, Get or Must.  The adapter's init() makes    *)
(* its calls of Register with the aliases and factories used here.         *)
(***************************************************************************)
Aliases == {"", "mupdf-text", "mupdf-render"}
FactoryNames == {NilFactory, "NewTextExtractor", "NewRenderer"}

\* no ExtractStructuredText and no BuildConfig is in progress
InitRegistry ==
    /\ doc = <<>>
    /\ batchSize = 1
    /\ fault = NoFault
    /\ InitRun
    /\ DiscoverIdle
    /\ CoreIdle

\* the frame of goroutine g after the assignment of v to its field
Frame(g, field, v) == [frames[g] EXCEPT ![field] = v]

\* a goroutine calls Register(alias, factory), Get(alias) or Must(alias)
Call(g) ==
    /\ frames[g].at = "idle"
    /\ \E op \in {"Register", "Get", "Must"}, a \in Aliases, f \in FactoryNames :
          /\ op # "Register" => f = NilFactory
          /\ frames' = [frames EXCEPT ![g] =
                          [NoCall EXCEPT !.op = op, !.alias = a, !.factory = f,
                                         !.at = "called", !.seen = DOMAIN registry]]
    /\ UNCHANGED <<registry, mu, made, configVars, mupdfVars, discoverVars>>

\* mutation of CanLock: mu.Lock() excludes nobody
CanLockAlways(g) == TRUE

\* mu.Lock() returns when no goroutine holds the lock
CanLock(g) == mu.w = 0 /\ mu.r = {}

\* mu.RLock() returns when no goroutine holds the write lock
CanRLock(g) == mu.w = 0

\* the verb %q of fmt, for an alias without special characters
Quote(a) == "\"" \o a \o "\""

\* the panic of Register(a, f), "" when it does not panic
RegisterPanic(a, f) ==
    IF a = "" THEN "gizmo: empty alias in Register"
    ELSE IF f = NilFactory THEN "gizmo: nil factory for alias " \o Quote(a)
    ELSE IF a \in DOMAIN registry THEN "gizmo: duplicate registration for alias " \o Quote(a)
    ELSE ""

\* Register: mu.Lock()
RegisterLock(g) ==
    /\ frames[g].at = "called"
    /\ frames[g].op = "Register"
    /\ CanLock(g)
    /\ mu' = [mu EXCEPT !.w = g]
    /\ frames' = [frames EXCEPT ![g] = Frame(g, "at", "locked")]
    /\ UNCHANGED <<registry, made, configVars, mupdfVars, discoverVars>>

\* Register: the three checks; a panic runs the deferred mu.Unlock()
RegisterCheck(g) ==
    /\ frames[g].at = "locked"
    /\ LET pn == RegisterPanic(frames[g].alias, frames[g].factory)
       IN  IF pn # ""
           THEN /\ frames' = [frames EXCEPT ![g] =
                                [frames[g] EXCEPT !.panic = pn, !.at = "returned"]]
                /\ mu' = [mu EXCEPT !.w = 0]
           ELSE /\ frames' = [frames EXCEPT ![g] = Frame(g, "at", "checked")]
                /\ mu' = mu
    /\ UNCHANGED <<registry, made, configVars, mupdfVars, discoverVars>>

\* Register: registry[alias] = factory, and the deferred mu.Unlock()
RegisterSet(g) ==
    /\ frames[g].at = "checked"
    /\ registry' = [a \in DOMAIN registry \cup {frames[g].alias} |->
                      IF a = frames[g].alias THEN frames[g].factory ELSE registry[a]]
    /\ mu' = [mu EXCEPT !.w = 0]
    /\ frames' = [frames EXCEPT ![g] = Frame(g, "at", "returned")]
    /\ UNCHANGED <<made, configVars, mupdfVars, discoverVars>>

\* Get: mu.RLock()
GetRLock(g) ==
    /\ frames[g].at = "called"
    /\ frames[g].op \in {"Get", "Must"}
    /\ CanRLock(g)
    /\ mu' = [mu EXCEPT !.r = @ \cup {g}]
    /\ frames' = [frames EXCEPT ![g] = Frame(g, "at", "rlocked")]
    /\ UNCHANGED <<registry, made, configVars, mupdfVars, discoverVars>>

\* Get: factory, ok := registry[alias]; mu.RUnlock()
GetRead(g) ==
    /\ frames[g].at = "rlocked"
    /\ LET found == frames[g].alias \in DOMAIN registry
       IN  frames' = [frames EXCEPT ![g] =
                        [frames[g] EXCEPT
                            !.ok = found,
                            !.fn = IF found THEN registry[frames[g].alias] ELSE NilFactory,
                            !.at = "read"]]
    /\ mu' = [mu EXCEPT !.r = @ \ {g}]
    /\ UNCHANGED <<registry, made, configVars, mupdfVars, discoverVars>>

\* mutation of NewProcessor: the factory hands out one shared Processor
SharedProcessor(fn, n) == [factory |-> fn, id |-> 1]

\* factory(): the Processor made by the call of fn after n earlier calls
NewProcessor(fn, n) == [factory |-> fn, id |-> n + 1]

\* fmt.Errorf("%w: %s", ErrNotFound, alias)
NotFound(a) == ErrNotFound \o ": " \o a

\* Get: the two return statements; Must: the panic on an error of Get
GetReturn(g) ==
    /\ frames[g].at = "read"
    /\ IF ~frames[g].ok
       THEN /\ frames' = [frames EXCEPT ![g] =
                            [frames[g] EXCEPT
                                !.err = NotFound(frames[g].alias),
                                !.proc = NilProcessor,
                                !.panic = IF frames[g].op = "Must"
                                          THEN NotFound(frames[g].alias) ELSE "",
                                !.at = "returned"]]
            /\ made' = made
       ELSE /\ frames' = [frames EXCEPT ![g] =
                            [frames[g] EXCEPT
                                !.proc = NewProcessor(frames[g].fn, made),
                                !.at = "returned"]]
            /\ made' = made + 1
    /\ UNCHANGED <<registry, mu, configVars, mupdfVars, discoverVars>>

NextRegistry ==
    \/ \E g \in Goroutines : Call(g)
    \/ \E g \in Goroutines : RegisterLock(g)
    \/ \E g \in Goroutines : RegisterCheck(g)
    \/ \E g \in Goroutines : RegisterSet(g)
    \/ \E g \in Goroutines : GetRLock(g)
    \/ \E g \in Goroutines : GetRead(g)
    \/ \E g \in Goroutines : GetReturn(g)

SpecRegistry == InitRegistry /\ [][NextRegistry]_vars

(***************************************************************************)
(* BuildConfig of package core.  An Option is the call that made it: its   *)
(* kind and its arguments; "nil" is the nil Option and "SetExtraNil" an    *)
(* Option written by the caller, func(c *Config) { c.Extra = nil }.        *)
(***************************************************************************)
Option(kind, key, n, str, pp) ==
    [kind |-> kind, key |-> key, n |-> n, s |-> str, pages |-> pp]

NilOption == Option("nil", "", 0, "", <<>>)
SetExtraNil == Option("SetExtraNil", "", 0, "", <<>>)
WithPages(p) == Option("WithPages", "", 0, "", p)
WithFormat(f) == Option("WithFormat", "", 0, f, <<>>)
WithExtra(key, val) == Option("WithExtra", key, val, "", <<>>)
WithWorkDir(dir) == Option("WithWorkDir", "", 0, dir, <<>>)
WithLogger(l) == Option("WithLogger", "", 0, l, <<>>)

Options ==
    {NilOption, SetExtraNil,
     WithPages(<<1>>), WithPages(<<2, 3>>),
     WithFormat("text"), WithFormat("png"),
     WithExtra("dpi", 72), WithExtra("dpi", 150), WithExtra("quality", 90),
     WithWorkDir("/tmp"),
     WithLogger("nil"), WithLogger("L1")}

\* make(map[string]any)
EmptyMap == [nil |-> FALSE, kv |-> [k \in {} |-> 0]]

\* m[key] = val on a map that is not nil
MapSet(m, key, val) ==
    [nil |-> FALSE,
     kv |-> [k \in DOMAIN m.kv \cup {key} |-> IF k = key THEN val ELSE m.kv[k]]]

\* o(cfg) for an Option that is not nil
Apply(c, o) ==
    CASE o.kind = "WithPages" -> [c EXCEPT !.Pages = o.pages]
      [] o.kind = "WithFormat" -> [c EXCEPT !.Format = o.s]
      [] o.kind = "WithExtra" ->
            [c EXCEPT !.Extra = MapSet(IF c.Extra.nil THEN EmptyMap ELSE c.Extra,
                                       o.key, o.n)]
      [] o.kind = "WithWorkDir" -> [c EXCEPT !.WorkDir = o.s]
      [] o.kind = "WithLogger" -> [c EXCEPT !.Logger = o.s]
      [] o.kind = "SetExtraNil" -> [c EXCEPT !.Extra = NilMap]

\* mutation of Defaulted: the Config is returned as the options left it
NotDefaulted(c) == c

\* the two guards before `return cfg`
Defaulted(c) ==
    [c EXCEPT !.Extra = IF c.Extra.nil THEN EmptyMap ELSE c.Extra,
              !.Logger = IF c.Logger = "nil" THEN "default" ELSE c.Logger]

\* a call of BuildConfig with up to MaxOpts options is about to be made
InitConfig ==
    /\ doc = <<>>
    /\ batchSize = 1
    /\ fault = NoFault
    /\ InitRun
    /\ DiscoverIdle
    /\ registry = EmptyRegistry
    /\ mu = Unlocked
    /\ frames = [g \in Goroutines |-> NoCall]
    /\ made = 0
    /\ opts \in SeqsUpTo(Options, MaxOpts)
    /\ cfg = ZeroConfig
    /\ oi = 0
    /\ bpc = "idle"

\* cfg := &Config{Extra: make(map[string]any, 4), Logger: slog.Default()}
BuildConfigStart ==
    /\ bpc = "idle"
    /\ cfg' = [ZeroConfig EXCEPT !.Extra = EmptyMap, !.Logger = "default"]
    /\ oi' = 0
    /\ bpc' = "loop"
    /\ UNCHANGED <<opts, registryVars, mupdfVars, discoverVars>>

\* one iteration of `for _, o := range opts`
ApplyOption ==
    /\ bpc = "loop"
    /\ oi < Len(opts)
    /\ cfg' = IF opts[oi + 1] # NilOption THEN Apply(cfg, opts[oi + 1]) ELSE cfg
    /\ oi' = oi + 1
    /\ UNCHANGED <<opts, bpc, registryVars, mupdfVars, discoverVars>>

\* the end of the loop, the two guards and `return cfg`
BuildConfigReturn ==
    /\ bpc = "loop"
    /\ oi = Len(opts)
    /\ cfg' = Defaulted(cfg)
    /\ bpc' = "returned"
    /\ UNCHANGED <<opts, oi, registryVars, mupdfVars, discoverVars>>

NextConfig ==
    \/ BuildConfigStart
    \/ ApplyOption
    \/ BuildConfigReturn

SpecConfig == InitConfig /\ [][NextConfig]_vars

(***************************************************************************)
(* discover, called by several goroutines.                                 *)
(***************************************************************************)
InitDiscover ==
    /\ doc = <<>>
    /\ batchSize = 1
    /\ fault = NoFault
    /\ InitRun
    /\ CoreIdle
    /\ DiscoverStart
    /\ environ \in Environs

DFrame(g, f) == dframes' = [dframes EXCEPT ![g] = f]

\* goroutine g calls discover()
DiscoverCall(g) ==
    /\ dframes[g].at = "idle"
    /\ dframes[g].calls < MaxCalls
    /\ DFrame(g, [dframes[g] EXCEPT !.at = "once"])
    /\ UNCHANGED <<binPath, binErr, once, environ, ran, returned, mupdfVars, coreVars>>

\* mutation of OnceDone: the Once forgets that its function has run
OnceDoneNever == FALSE

\* the done flag of the Once
OnceDone == once.done

\* once.Do(func() {...}), a call that finds the function already run: it
\* returns at once
OnceSkip(g) ==
    /\ dframes[g].at = "once"
    /\ OnceDone
    /\ DFrame(g, [dframes[g] EXCEPT !.at = "return"])
    /\ UNCHANGED <<binPath, binErr, once, environ, ran, returned, mupdfVars, coreVars>>

\* once.Do(func() {...}), the call that runs the function: it takes the
\* mutex of the Once, which a call made meanwhile waits for; the function
\* starts with the search
OnceSearch(g) ==
    /\ dframes[g].at = "once"
    /\ ~OnceDone
    /\ once.m = 0
    /\ LET path == Search(Candidates(environ), environ.installed, binPath)
       IN  /\ binPath' = path
           /\ ran' = [ran EXCEPT !.search = @ + 1]
           /\ IF path = <<>>
              THEN /\ binErr' = ErrNoMutool
                   /\ once' = [done |-> TRUE, m |-> 0]
                   /\ DFrame(g, [dframes[g] EXCEPT !.at = "return"])
              ELSE /\ binErr' = binErr
                   /\ once' = [once EXCEPT !.m = g]
                   /\ DFrame(g, [dframes[g] EXCEPT !.at = "version"])
    /\ UNCHANGED <<environ, returned, mupdfVars, coreVars>>

\* _ = checkVersion(binPath), the end of the function; the Once is done
OnceVersion(g) ==
    /\ dframes[g].at = "version"
    /\ binErr' = checkVersion(environ.version, binErr)
    /\ ran' = [ran EXCEPT !.version = @ + 1]
    /\ once' = [done |-> TRUE, m |-> 0]
    /\ DFrame(g, [dframes[g] EXCEPT !.at = "return"])
    /\ UNCHANGED <<binPath, environ, returned, mupdfVars, coreVars>>

\* return binPath, binErr
DiscoverReturn(g) ==
    /\ dframes[g].at = "return"
    /\ DFrame(g, [at |-> "idle", calls |-> dframes[g].calls + 1,
                  path |-> binPath, err |-> binErr])
    /\ returned' = returned \cup {<<binPath, binErr>>}
    /\ UNCHANGED <<binPath, binErr, once, environ, ran, mupdfVars, coreVars>>

\* the environment changes while the process runs: an executable is
\* installed, or mutool is upgraded
Install ==
    /\ \E c \in Executables \ environ.installed :
          environ' = [environ EXCEPT !.installed = @ \cup {c}]
    /\ UNCHANGED <<binPath, binErr, once, dframes, ran, returned, mupdfVars, coreVars>>

Upgrade ==
    /\ environ.version = VersionOld
    /\ environ' = [environ EXCEPT !.version = VersionNew]
    /\ UNCHANGED <<binPath, binErr, once, dframes, ran, returned, mupdfVars, coreVars>>

NextDiscover ==
    \/ \E g \in Callers : DiscoverCall(g)
    \/ \E g \in Callers : OnceSkip(g)
    \/ \E g \in Callers : OnceSearch(g)
    \/ \E g \in Callers : OnceVersion(g)
    \/ \E g \in Callers : DiscoverReturn(g)
    \/ Install
    \/ Upgrade

SpecDiscover == InitDiscover /\ [][NextDiscover]_vars

(***************************************************************************)
(* Properties.                                                             *)
(***************************************************************************)
\* the pass-2 step about to be taken processes a block of this class
Processing(class) == AtBlock /\ BlockClass(CurBlock) = class

\* the body paragraphs written so far, emitted or pending, each with the
\* index of the output block it belongs to
PlacedParas ==
    {kn \in (1..(Len(blockParas) + 1)) \X (1..MaxBlocks) :
        kn[2] <= Len(IF kn[1] <= Len(blockParas) THEN blockParas[kn[1]] ELSE aggParas)}

ParaAt(kn) ==
    IF kn[1] <= Len(blockParas) THEN blockParas[kn[1]][kn[2]] ELSE aggParas[kn[2]]

ParaTexts(ps) == [n \in 1..Len(ps) |-> ps[n].Text]

BlankLine == <<"\n", "\n">>

\* C1: every emitted StructuredBlock carries the absolute page of the first
\* body paragraph its text contains.
C1_PageOfFirstParagraph ==
    \A k \in 1..Len(blocks) : blocks[k].PageNumber = blockParas[k][1].Page

\* C2: whatever the batch size, the batched run returns what the unbatched
\* algorithm returns on the same document: the same blocks (hierarchy, text
\* and page of each), or the same error.
C2_BatchTransparency ==
    (pc = "done" /\ pageCount > 0) =>
        LET v1 == V1Extract(doc)
        IN  /\ ret = v1.blocks
            /\ err = v1.err

\* C2 witness: a run that took several batches returned a block attributed
\* to a page of a later batch.
C2_Witness ==
    /\ pc = "done" /\ err = ""
    /\ batchSize < pageCount
    /\ \E k \in 1..Len(ret) : ret[k].PageNumber > batchSize

\* C3: body blocks with no heading block between them and a non-empty heading
\* path end up in one StructuredBlock, whose text is the paragraphs joined by
\* exactly one blank line; paragraphs separated by a heading block are never
\* in the same StructuredBlock.
C3_AggregationBoundary ==
    /\ \A k \in 1..Len(blocks) :
          /\ blocks[k].Text = Join(ParaTexts(blockParas[k]), BlankLine)
          /\ \A n \in 1..Len(blockParas[k]) :
                /\ blockParas[k][n].Epoch = blockParas[k][1].Epoch
                /\ blockParas[k][n].Hier = blockParas[k][1].Hier
    /\ aggBuilder = Join(ParaTexts(aggParas), BlankLine)
    /\ \A a \in PlacedParas, b \in PlacedParas :
          (ParaAt(a).Epoch = ParaAt(b).Epoch) <=> (a[1] = b[1])

\* C3 witness: a block made of two body paragraphs was emitted.
C3_Witness ==
    \E k \in 1..Len(blocks) :
        /\ Len(blockParas[k]) = 2
        /\ blocks[k].Text = <<"x", " ", "y", "\n", "\n", "x", " ", "y">>

\* C4: a Body block processed before the first heading block changes nothing
\* of the aggregate, the heading state or the output, which are still empty.
C4_NoPreHeadingLeak ==
    /\ [](\A a \in PlacedParas : ParaAt(a).Epoch > 0)
    /\ [][(Processing("Body") /\ headings = 0) =>
             /\ UNCHANGED <<aggVars, headingVars>>
             /\ blocks' = <<>> /\ aggBuilder' = <<>> /\ aggHierarchy' = <<>>
             /\ aggPage' = 0]_vars

\* C4 witness: a Body block was processed before any heading, and the run
\* later emitted blocks.
C4_Witness ==
    /\ pc = "done" /\ Len(ret) > 0
    /\ \E b \in 1..Len(doc[1]) :
          /\ doc[1][b] = BlockY
          /\ \A a \in 1..b : doc[1][a] = BlockY

\* C5: a Title block leaves Section and Subsection empty, a Section block
\* leaves Subsection empty and Title unchanged, a Subsection block leaves
\* Title and Section unchanged.
C5_HeadingReset ==
    [][/\ Processing("Title") => curSection' = <<>> /\ curSubsection' = <<>>
       /\ Processing("Section") => curSubsection' = <<>> /\ curTitle' = curTitle
       /\ Processing("Subsection") =>
             curTitle' = curTitle /\ curSection' = curSection]_vars

\* C5 witness: a Section block was processed after text had been emitted
\* under a Section | Subsection path, and the Subsection is now empty.
C5_Witness ==
    /\ lastClass = "Section"
    /\ curSubsection = <<>>
    /\ \E k \in 1..Len(blocks) :
          blocks[k].HeaderHierarchy = Hierarchy(<<>>, curSection, <<"B">>)

\* the lines of a document, and those of its text blocks
AllLines(d) ==
    {d[pg][b].Lines[n] : <<pg, b, n>> \in
        {x \in (1..Len(d)) \X (1..MaxBlocks) \X (1..2) :
            x[2] <= Len(d[x[1]]) /\ x[3] <= Len(d[x[1]][x[2]].Lines)}}

AllBlocks(d) ==
    {d[x[1]][x[2]] : x \in {y \in (1..Len(d)) \X (1..MaxBlocks) : y[2] <= Len(d[y[1]])}}

TextLines(d) ==
    UNION {{blk.Lines[n] : n \in 1..Len(blk.Lines)} :
           blk \in {x \in AllBlocks(d) : x.Type = "text"}}

\* the fixed-point font sizes 0.0, 0.5, ... 20.0
Sizes == 0..(20 * Scale)

\* C6: in a document whose lines all have the font size s the thresholds are
\* (s, 0, 0), every block with text classifies as Title and the run returns
\* no block and no error.
C6_SingleSizeDocument ==
    \A s \in Sizes :
        (/\ pc = "done"
         /\ TextLines(doc) # {}
         /\ \A ln \in AllLines(doc) : ln.Size = s)
        => /\ titleSize = s /\ sectionSize = 0 /\ subSize = 0
           /\ \A blk \in AllBlocks(doc) :
                 (blk.Type = "text" /\ BlockText(blk) # <<>>)
                 => classify(MaxSize(blk.Lines)) = "Title"
           /\ ret = <<>> /\ err = ""

\* C7: the resume yields exactly the two blocks
\* ("Resume Title | Experience", body of page 1, 1) and
\* ("Resume Title | Education", body of page 2, 2).
C7_ResumeScenario ==
    pc = "done" =>
        /\ err = ""
        /\ ret = <<StructuredBlock(ResumeTitle \o <<" ", "|", " ">> \o Experience,
                                   Body1, 1),
                   StructuredBlock(ResumeTitle \o <<" ", "|", " ">> \o Education,
                                   Body2, 2)>>

ThresholdsKnown == pc \in {"pass2", "done"} /\ err = ""

\* pass 2 is about to start: the thresholds have just been selected, and
\* nothing changes them later
ThresholdsSelected == pc = "pass2" /\ ~loaded /\ start = 1

\* the level the first-match-wins rule gives a size under thresholds t, s, u
FirstMatch(t, s, u, sz) ==
    IF t > 0 /\ sz >= t THEN "Title"
    ELSE IF s > 0 /\ sz >= s THEN "Section"
    ELSE IF u > 0 /\ sz >= u THEN "Subsection"
    ELSE ""

\* C8: with the selected thresholds, a size equal to a non-zero threshold
\* classifies as exactly that threshold's level, the levels are tried in the
\* order Title, Section, Subsection, and a threshold of 0 matches no size.
C8_ClassificationConsistency ==
    /\ ThresholdsKnown =>
          \A sz \in {titleSize, sectionSize, subSize} \cup
                     (IF AtBlock THEN {MaxSize(CurBlock.Lines)} ELSE {}) :
              classify(sz) = FirstMatch(titleSize, sectionSize, subSize, sz)
    /\ ThresholdsSelected =>
        \A sz \in Sizes :
            /\ (titleSize > 0 /\ sz = titleSize) => classify(sz) = "Title"
            /\ (sectionSize > 0 /\ sz = sectionSize) => classify(sz) = "Section"
            /\ (subSize > 0 /\ sz = subSize) => classify(sz) = "Subsection"
            /\ titleSize = 0 => classify(sz) # "Title"
            /\ sectionSize = 0 => classify(sz) # "Section"
            /\ subSize = 0 => classify(sz) # "Subsection"
            /\ classify(sz) = FirstMatch(titleSize, sectionSize, subSize, sz)

\* C8 witness: the block just processed has a representative size equal to
\* the subsection threshold and was treated as a Subsection.
C8_Witness ==
    /\ pc = "pass2" /\ loaded /\ j > 1 /\ i < Len(pages)
    /\ subSize > 0
    /\ MaxSize(pages[i + 1][j - 1].Lines) = subSize
    /\ lastClass = "Subsection"

\* C9: the non-zero thresholds are strictly descending and each is a key of
\* the histogram.
C9_ThresholdMonotonicity ==
    ThresholdsKnown =>
        /\ \A t \in {titleSize, sectionSize, subSize} :
              t # 0 => \E k \in DOMAIN freq : t = k * Scale
        /\ titleSize > 0
        /\ sectionSize # 0 => titleSize > sectionSize
        /\ subSize # 0 => (sectionSize # 0 /\ sectionSize > subSize)

\* C9 witness: three thresholds were selected.
C9_Witness == pc = "pass2" /\ titleSize > 0 /\ sectionSize > 0 /\ subSize > 0

\* the n-th largest element of a set of integers
RECURSIVE NthLargest(_, _)
NthLargest(S, n) ==
    LET top == CHOOSE m \in S : \A x \in S : x <= m
    IN  IF n = 1 THEN top ELSE NthLargest(S \ {top}, n - 1)

\* thresholds th are what C10 says for a histogram with the keys K
ThresholdsAsSpecified(K, th) ==
    /\ Cardinality(K) = 0 =>
          th = [title |-> 0, section |-> 0, sub |-> 0, err |-> ErrNoText]
    /\ Cardinality(K) = 1 =>
          th = [title |-> NthLargest(K, 1) * Scale, section |-> 0, sub |-> 0,
                err |-> ""]
    /\ Cardinality(K) = 2 =>
          th = [title |-> NthLargest(K, 1) * Scale,
                section |-> NthLargest(K, 2) * Scale, sub |-> 0, err |-> ""]
    /\ Cardinality(K) >= 3 =>
          th = [title |-> NthLargest(K, 1) * Scale,
                section |-> NthLargest(K, 2) * Scale,
                sub |-> NthLargest(K, 3) * Scale, err |-> ""]

\* C10: one key gives (key, 0, 0), two give (largest, second, 0), three or
\* more give the three largest keys in descending order, and no key gives the
\* error "no text detected" with all thresholds 0; the unbatched
\* computeFontThresholds selects the same way.
C10_ThresholdSelection ==
    (pc \in {"pass2", "done"} /\ pageCount > 0) =>
        /\ ThresholdsAsSpecified(DOMAIN freq,
              [title |-> titleSize, section |-> sectionSize, sub |-> subSize,
               err |-> err])
        /\ pc = "done" =>
              ThresholdsAsSpecified(DOMAIN UpdateAll(<<>>, doc),
                                    computeFontThresholds(doc))

\* C10 witness: thresholds were selected from a histogram of four keys.
C10_Witness == pc = "pass2" /\ Cardinality(DOMAIN freq) = 4 /\ subSize > 0

(***************************************************************************)
(* Errors and the decode requests.                                         *)
(***************************************************************************)
\* the calls of loadPagesBatch made by pass n, in order
PassRequests(n) == SelectSeq(requests, LAMBDA r : r.Pass = n)

\* C11: when the page count is zero the run ends with the empty-document
\* error and no blocks, and loadPagesBatch is called in neither pass; a
\* zero-page document never ends in success.
C11_EmptyDocument ==
    (Len(doc) = 0 /\ GetPageCountErr = "") =>
        /\ requests = <<>>
        /\ pc \in {"start", "done"}
        /\ pc = "done" =>
              /\ err = "empty PDF or page count undetected"
              /\ ret = <<>>
              /\ blocks = <<>>

\* C11 witness: the run of a zero-page document has ended with an error.
C11_Witness ==
    /\ pc = "done" /\ Len(doc) = 0 /\ pageCount = 0
    /\ err # "" /\ ret = <<>> /\ requests = <<>>

\* the faulty command is a call of loadPagesBatch and has been made
FaultHit == fault.at >= 1 /\ Len(requests) >= fault.at

\* the error message that names pass n and the pages from..to
NamesBatch(n, from, to, cause) ==
    "pass-" \o Itoa(n) \o " (pages " \o Itoa(from) \o "-" \o Itoa(to) \o "): " \o cause

\* C12: when loadPagesBatch fails for a batch, in pass 1 or pass 2, the run
\* has ended: the failing request is the last one (nothing is requested
\* after it and it is not repeated), the error names the pass and the first
\* and last page of that batch, and nothing is returned, whatever blocks
\* pass 2 had emitted.
C12_DecodeFailureAborts ==
    FaultHit =>
        LET r == requests[fault.at]
        IN  /\ pc = "done"
            /\ Len(requests) = fault.at
            /\ r.From = start /\ r.To = BatchEnd
            /\ \A k \in 1..(fault.at - 1) :
                  requests[k].Pass # r.Pass \/ requests[k].From # r.From
            /\ err = NamesBatch(r.Pass, r.From, r.To,
                                loadPagesBatchErr(fault.at, r.From, r.To))
            /\ err # ""
            /\ ret = <<>>

\* C12 witness: the subprocess of a pass-2 batch failed after an earlier
\* batch of pass 2 had emitted a block.
C12_Witness ==
    /\ FaultHit /\ fault.kind = "run"
    /\ requests[fault.at].Pass = 2 /\ requests[fault.at].From > 1
    /\ blocks # <<>>
    /\ pc = "done" /\ ret = <<>>

\* C13: a run whose histogram is empty when the pass-1 loop has ended
\* terminates with the no-text error and no blocks, and pass 2 never starts:
\* whenever pass 2 runs or one of its decode requests exists, the histogram
\* is not empty.
C13_NoTextBeforePass2 ==
    /\ (pc = "pass2" \/ PassRequests(2) # <<>>) => freq # <<>>
    /\ (pc = "done" /\ pageCount > 0 /\ start > pageCount /\ freq = <<>>) =>
          /\ err = "no text detected in PDF"
          /\ ret = <<>>
          /\ blocks = <<>>
          /\ PassRequests(2) = <<>>

\* C13 witness: a document with pages and no line of text: pass 1 has
\* decoded every page and the run has ended without a pass-2 request.
C13_Witness ==
    /\ pc = "done" /\ err # ""
    /\ pageCount > 0 /\ freq = <<>>
    /\ Len(PassRequests(1)) = pageCount
    /\ PassRequests(2) = <<>>
    /\ ret = <<>>

\* the faulty command has been run, or was to be run with ctx done
FaultReached == (fault.at = 0 /\ pc # "start") \/ FaultHit

\* C14: a run ends in one of two ways, the blocks with a nil error or nil
\* blocks with an error, and never with blocks and an error; before its end
\* nothing is returned; an error is final from the step that meets it: the
\* run is over with that error, the failing command is not run again and
\* no state of a finished run changes.
C14_BlocksOrError ==
    /\ [](/\ pc = "done" =>
                \/ err = "" /\ ret = blocks
                \/ err # "" /\ ret = <<>>
          /\ pc # "done" => (err = "" /\ ret = <<>>)
          /\ FaultReached => (pc = "done" /\ err # "" /\ Len(requests) <= fault.at))
    /\ [][(pc = "done" => pc' = "done") /\ (err # "" => err' = err /\ ret' = ret)]_vars

\* C14 witness: a run ended with an error after pass 2 had emitted a block,
\* the output of the failing command being malformed.
C14_Witness ==
    /\ pc = "done" /\ err # "" /\ ret = <<>>
    /\ fault.kind = "output"
    /\ Len(blocks) >= 1

\* ctx was cancelled before command k could start
CancelledBefore(k) == fault.kind = "cancel" /\ fault.at = k

\* ctx was cancelled while command k ran
CancelledDuring(k) == fault.kind = "killed" /\ fault.at = k

C16_NoEmptyBlock ==
    /\ [](/\ \A k \in 1..Len(blocks) :
                /\ blocks[k].HeaderHierarchy # <<>>
                /\ blocks[k].Text # <<>>
          /\ \A k \in 1..Len(ret) :
                /\ ret[k].HeaderHierarchy # <<>>
                /\ ret[k].Text # <<>>
          /\ Len(blockParas) = Len(blocks)
          /\ \A k \in 1..Len(blockParas) : blockParas[k] # <<>>)
    /\ [][/\ aggBuilder = <<>> => blocks' = blocks
          /\ Len(blocks') <= Len(blocks) + 1
          /\ SubSeq(blocks', 1, Len(blocks)) = blocks]_vars

\* C16 witness: a finished run that met three headings, two of them with no
\* body text below, and returned a single block.
C16_Witness ==
    /\ pc = "done" /\ err = ""
    /\ headings >= 3
    /\ Len(ret) = 1
    /\ lastClass \in {"Section", "Subsection"}

\* ceil(p / b)
CeilDiv(p, b) == (p + b - 1) \div b

\* the requests rs are the first ones of a schedule over pages 1.. in
\* batches of at most b pages: ascending, contiguous, without overlap
InSchedule(rs, b) ==
    \A k \in 1..Len(rs) :
        /\ rs[k].Started
        /\ rs[k].From = (IF k = 1 THEN 1 ELSE rs[k - 1].To + 1)
        /\ rs[k].From <= rs[k].To
        /\ rs[k].To - rs[k].From + 1 <= b

\* the requests rs are a whole schedule over the pages 1..p
WholeSchedule(rs, p, b) ==
    /\ InSchedule(rs, b)
    /\ Len(rs) = CeilDiv(p, b)
    /\ rs[Len(rs)].To = p

\* how many of the requests decode page n
Decodes(n) == Cardinality({k \in 1..Len(requests) :
                              requests[k].From <= n /\ n <= requests[k].To})

\* C20: in a run without fault the requests of each pass follow the batch
\* schedule; pass-1 requests come before pass-2 requests; when pass 2 runs
\* or has made a request, pass 1 has requested its whole schedule and the
\* thresholds are those of the histogram of the whole document; a
\* successful run over P pages has made ceil(P/B) requests in each pass and
\* decoded every page twice.  The thresholds are assigned only by the step
\* from pass 1 to pass 2, which is taken once.
C20_BatchSchedule ==
    /\ [](fault = NoFault =>
            /\ InSchedule(PassRequests(1), batchSize)
            /\ InSchedule(PassRequests(2), batchSize)
            /\ requests = PassRequests(1) \o PassRequests(2)
            /\ (pc = "pass2" \/ PassRequests(2) # <<>>) =>
                  /\ WholeSchedule(PassRequests(1), pageCount, batchSize)
                  /\ freq = UpdateAll(<<>>, doc)
                  /\ thresholdsFromFreq(freq).err = ""
                  /\ titleSize = thresholdsFromFreq(freq).title
                  /\ sectionSize = thresholdsFromFreq(freq).section
                  /\ subSize = thresholdsFromFreq(freq).sub
            /\ (pc = "done" /\ err = "") =>
                  /\ pageCount >= 1
                  /\ WholeSchedule(PassRequests(1), pageCount, batchSize)
                  /\ WholeSchedule(PassRequests(2), pageCount, batchSize)
                  /\ \A n \in 1..pageCount : Decodes(n) = 2
                  /\ \A n \in (pageCount + 1)..(pageCount + batchSize) : Decodes(n) = 0)
    /\ [][/\ thresholdVars' # thresholdVars => (pc = "pass1" /\ pc' = "pass2")
          /\ pc = "pass2" => pc' \in {"pass2", "done"}
          /\ pc' = "pass1" => PassRequests(2) = <<>>]_vars

\* C20 witness: a successful run over several pages in batches of one page.
C20_Witness ==
    /\ pc = "done" /\ err = ""
    /\ pageCount >= 2 /\ batchSize = 1
    /\ Len(PassRequests(1)) = pageCount
    /\ Len(PassRequests(2)) = pageCount
    /\ ret # <<>>

(***************************************************************************)
(* Package core.                                                           *)
(***************************************************************************)
Returned(g) == frames[g].at = "returned"

\* the call of goroutine g was a Register that returned without panic
Registered(g) == Returned(g) /\ frames[g].op = "Register" /\ frames[g].panic = ""

\* the call of goroutine g was a Get or Must whose Get returned no error
Got(g) == Returned(g) /\ frames[g].op \in {"Get", "Must"} /\ frames[g].err = ""

\* C17: a Register call with an empty alias, a nil factory or an alias that
\* was registered when it was called panics; a Register call that returns
\* has installed its factory; every alias of the registry was installed by
\* exactly one call, also when the calls for that alias overlap, and every
\* other returned call for it panicked; the write lock is held by at most
\* one goroutine and by no goroutine whose call has ended.  The registry
\* changes only by the addition of one alias by a call that returns, and a
\* step that panics leaves it unchanged.
C17_RegisterOnce ==
    /\ [](/\ \A g \in Goroutines :
                (Returned(g) /\ frames[g].op = "Register") =>
                    /\ (\/ frames[g].alias = ""
                        \/ frames[g].factory = NilFactory
                        \/ frames[g].alias \in frames[g].seen) => frames[g].panic # ""
                    /\ frames[g].panic = "" =>
                          /\ frames[g].alias # "" /\ frames[g].factory # NilFactory
                          /\ frames[g].alias \in DOMAIN registry
                          /\ registry[frames[g].alias] = frames[g].factory
                    /\ (frames[g].alias # "" /\ frames[g].factory # NilFactory) =>
                          \E h \in Goroutines :
                              Registered(h) /\ frames[h].alias = frames[g].alias
          /\ \A g \in Goroutines, h \in Goroutines :
                (Registered(g) /\ Registered(h) /\ frames[g].alias = frames[h].alias)
                    => g = h
          /\ \A a \in DOMAIN registry :
                /\ a # "" /\ registry[a] # NilFactory
                /\ \E g \in Goroutines : Registered(g) /\ frames[g].alias = a
          /\ \A g \in Goroutines :
                /\ mu.w = g <=> frames[g].at \in {"locked", "checked"}
                /\ g \in mu.r <=> frames[g].at = "rlocked"
          /\ mu.w # 0 => mu.r = {})
    /\ [][/\ registry' # registry =>
               \E g \in Goroutines :
                   /\ ~Returned(g) /\ Registered(g)'
                   /\ frames[g].alias \notin DOMAIN registry
                   /\ DOMAIN registry' = DOMAIN registry \cup {frames[g].alias}
                   /\ \A a \in DOMAIN registry : registry'[a] = registry[a]
          /\ \A g \in Goroutines :
                (frames[g].panic = "" /\ frames'[g].panic # "") =>
                    (registry' = registry /\ mu'.w # g /\ g \notin mu'.r)]_vars

\* C17 witness: three calls of Register for one alias, all made before the
\* alias was registered, have returned: one installed its factory, two
\* panicked.
C17_Witness ==
    /\ \A g \in Goroutines :
          /\ Returned(g) /\ frames[g].op = "Register"
          /\ frames[g].alias = "mupdf-text" /\ frames[g].factory # NilFactory
          /\ frames[g].seen = {}
    /\ Cardinality({g \in Goroutines : Registered(g)}) = 1
    /\ Cardinality({g \in Goroutines : frames[g].panic # ""}) = 2
    /\ mu = Unlocked

\* C18: a Get for an alias that is not registered returns the error
\* "gizmo: processor not found: <alias>" and a nil Processor; a Get that
\* returns no error returns a Processor made by the factory installed for
\* the alias, by a call of its own: no two calls return the same Processor;
\* a Get called when the alias was registered returns no error; Must panics
\* exactly when its Get returns an error, with that error, and Get never
\* panics.  No step removes or replaces an entry of the registry.
C18_GetAndMust ==
    /\ [](/\ \A g \in Goroutines :
                (Returned(g) /\ frames[g].op \in {"Get", "Must"}) =>
                    /\ frames[g].alias \notin DOMAIN registry => frames[g].err # ""
                    /\ frames[g].err # "" =>
                          /\ frames[g].err = "gizmo: processor not found: " \o frames[g].alias
                          /\ frames[g].proc = NilProcessor
                    /\ frames[g].err = "" =>
                          /\ frames[g].alias \in DOMAIN registry
                          /\ frames[g].proc.factory = registry[frames[g].alias]
                          /\ frames[g].proc.id >= 1
                    /\ frames[g].alias \in frames[g].seen => frames[g].err = ""
                    /\ frames[g].panic # "" <=> (frames[g].op = "Must" /\ frames[g].err # "")
                    /\ frames[g].panic # "" => frames[g].panic = frames[g].err
          /\ \A g \in Goroutines, h \in Goroutines :
                (Got(g) /\ Got(h) /\ g # h) => frames[g].proc # frames[h].proc
          /\ made = Cardinality({g \in Goroutines : Got(g)}))
    /\ [][\A a \in DOMAIN registry :
              a \in DOMAIN registry' /\ registry'[a] = registry[a]]_vars

\* C18 witness: after a Register, a Get and a Must for its alias have each
\* returned a Processor of the registered factory.
C18_Witness ==
    /\ Registered(1) /\ frames[1].alias = "mupdf-render"
    /\ Got(2) /\ frames[2].op = "Get" /\ frames[2].alias = "mupdf-render"
    /\ Got(3) /\ frames[3].op = "Must" /\ frames[3].alias = "mupdf-render"
    /\ frames[2].proc.factory = frames[1].factory
    /\ frames[3].proc.factory = frames[1].factory
    /\ frames[2].proc # frames[3].proc

\* the positions of the options of a kind in the call
Of(kind) == {k \in 1..Len(opts) : opts[k].kind = kind}

\* the last option of a kind; the kind occurs
LastOf(kind) == opts[Max(Of(kind))]

\* the WithExtra options that no later SetExtraNil undoes
ExtraSets ==
    {k \in Of("WithExtra") : \A c \in Of("SetExtraNil") : c < k}

\* C19: the Config that BuildConfig returns has an Extra map and a Logger
\* that are not nil, whatever the options, nil options and WithLogger(nil)
\* included; each field holds what the last option for it set, the default
\* when none did; Extra holds, for every key set by WithExtra, the value of
\* the last WithExtra for that key.  A nil option changes nothing.
C19_ConfigDefaults ==
    /\ [](bpc = "returned" =>
            /\ ~cfg.Extra.nil
            /\ cfg.Logger # "nil"
            /\ cfg.Pages = (IF Of("WithPages") = {} THEN <<>> ELSE LastOf("WithPages").pages)
            /\ cfg.Format = (IF Of("WithFormat") = {} THEN "" ELSE LastOf("WithFormat").s)
            /\ cfg.WorkDir = (IF Of("WithWorkDir") = {} THEN "" ELSE LastOf("WithWorkDir").s)
            /\ cfg.Logger = (IF Of("WithLogger") = {} THEN "default"
                             ELSE IF LastOf("WithLogger").s = "nil" THEN "default"
                             ELSE LastOf("WithLogger").s)
            /\ DOMAIN cfg.Extra.kv = {opts[k].key : k \in ExtraSets}
            /\ \A key \in DOMAIN cfg.Extra.kv :
                  cfg.Extra.kv[key] = opts[Max({k \in ExtraSets : opts[k].key = key})].n)
    /\ [][(bpc = "loop" /\ oi < Len(opts) /\ opts[oi + 1] = NilOption) => cfg' = cfg]_vars

\* C19 witness: BuildConfig(WithExtra("dpi", 72), WithExtra("quality", 90),
\* WithLogger(nil)) has returned a Config with both entries and the default
\* Logger.
C19_Witness ==
    /\ bpc = "returned"
    /\ opts = <<WithExtra("dpi", 72), WithExtra("quality", 90), WithLogger("nil")>>
    /\ DOMAIN cfg.Extra.kv = {"dpi", "quality"}
    /\ cfg.Logger = "default"

(***************************************************************************)
(* The histogram, the aggregator and the output.                           *)
(***************************************************************************)
\* the places <<page, block, line>> of the lines of the text blocks of the
\* first n pages
TextLinePlaces(n) ==
    {x \in (1..n) \X (1..MaxBlocks) \X (1..2) :
        /\ x[2] <= Len(doc[x[1]])
        /\ doc[x[1]][x[2]].Type = "text"
        /\ x[3] <= Len(doc[x[1]][x[2]].Lines)}

\* round(size + 0.5), halves away from zero, of the line at place x, whose
\* size is counted in half points and is not negative: the whole points of
\* size + 1.0
RoundedSize(x) == (doc[x[1]][x[2]].Lines[x[3]].Size + 2) \div 2

RECURSIVE SumCounts(_)
SumCounts(f) ==
    IF DOMAIN f = {} THEN 0
    ELSE LET k == Max(DOMAIN f)
         IN  f[k] + SumCounts([n \in DOMAIN f \ {k} |-> f[n]])

\* the pages pass 1 has decoded
Pass1Pages == IF pc = "pass1" THEN Min(start - 1, pageCount) ELSE pageCount

\* C21: during and after pass 1 the histogram counts, for every bucket, the
\* lines of the text blocks of the decoded pages whose round(size + 0.5) is
\* that bucket, has no other key, and its counts add up to the number of
\* those lines, whatever the batch size; after pass 1 it is the histogram
\* of the whole document taken at once.
C21_Histogram ==
    (pc = "pass1" \/ (pc = "pass2" /\ ~loaded)) =>
        LET places == TextLinePlaces(Pass1Pages)
        IN  /\ DOMAIN freq = {RoundedSize(x) : x \in places}
            /\ \A k \in DOMAIN freq :
                  freq[k] = Cardinality({x \in places : RoundedSize(x) = k})
            /\ SumCounts(freq) = Cardinality(places)
            /\ Pass1Pages = pageCount => freq = UpdateAll(<<>>, doc)

\* C21 witness: pass 1 has ended after two batches on a document with an
\* image block and two lines of one size.
C21_Witness ==
    /\ pc = "pass1" /\ start > pageCount
    /\ pageCount = 2 /\ batchSize = 1
    /\ \E k \in DOMAIN freq : freq[k] = 2
    /\ BlockI \in AllBlocks(doc)
    /\ doc[2] # <<>>

\* the first page of the batch pass 2 ranges over, from the request made
BatchFirstPage == requests[Len(requests)].From

\* C22: a Body block that starts a new aggregate, its hierarchy differing
\* from that of the aggregate in progress, sets the aggregate's page to the
\* page of the document the block lies on: the first page of the batch plus
\* the page's index within the batch, in the first batch and in later ones.
C22_AbsolutePage ==
    [][(/\ Processing("Body")
        /\ buildHierarchy # <<>>
        /\ buildHierarchy # aggHierarchy) =>
            /\ aggPage' = BatchFirstPage + i
            /\ aggPage' \in 1..Len(doc)
            /\ j <= Len(doc[aggPage'])
            /\ doc[aggPage'][j] = CurBlock
            /\ pages[i + 1] = doc[aggPage']]_vars

\* C22 witness: an aggregate was started by a Body block of the second
\* batch, on the page of index 0 of that batch, and it carries page 2.
C22_Witness ==
    /\ pc = "pass2" /\ loaded
    /\ batchSize = 1 /\ Len(PassRequests(2)) = 2 /\ BatchFirstPage = 2 /\ i = 0
    /\ lastClass = "Body"
    /\ Len(aggParas) = 1
    /\ aggPage = 2

\* the block about to be processed has text and is a heading of some level
AtHeading == \E class \in {"Title", "Section", "Subsection"} : Processing(class)

\* C23: a heading block with text, of whatever level, flushes the aggregate
\* in progress: after the step the buffer is empty, and when it was not
\* empty exactly one block was emitted, with the buffer's text and page and
\* with the hierarchy that was current before the heading; the paragraphs
\* of an emitted block were all written between the same two headings.
C23_HeadingFlushes ==
    /\ [](/\ aggBuilder # <<>> => aggHierarchy = buildHierarchy
          /\ \A k \in 1..Len(blockParas) : \A n \in 1..Len(blockParas[k]) :
                blockParas[k][n].Epoch = blockParas[k][1].Epoch)
    /\ [][AtHeading =>
             /\ aggBuilder' = <<>>
             /\ aggParas' = <<>>
             /\ IF aggBuilder = <<>>
                THEN blocks' = blocks
                ELSE /\ Len(blocks') = Len(blocks) + 1
                     /\ SubSeq(blocks', 1, Len(blocks)) = blocks
                     /\ blocks'[Len(blocks')].HeaderHierarchy = buildHierarchy
                     /\ blocks'[Len(blocks')].Text = aggBuilder
                     /\ blocks'[Len(blocks')].PageNumber = aggPage
                     /\ blockParas'[Len(blocks')] = aggParas]_vars

\* C23 witness: a Subsection heading met a pending aggregate of the Section
\* above it and the block was emitted under the Section alone.
C23_Witness ==
    /\ lastClass = "Subsection"
    /\ aggBuilder = <<>>
    /\ Len(blocks) >= 1
    /\ blockParas[Len(blocks)][1].Epoch = headings - 1
    /\ blocks[Len(blocks)].HeaderHierarchy = curSection
    /\ curSubsection # <<>>

\* the block is not a text block, or none of its lines has text
NoText(blk) ==
    \/ blk.Type # "text"
    \/ \A n \in 1..Len(blk.Lines) : \A c \in 1..Len(blk.Lines[n].Text) :
          IsSpace(blk.Lines[n].Text[c])

\* C24: the step of pass 2 over a block that is not a text block, or whose
\* lines hold white space only, changes neither the heading triple nor the
\* aggregate (hierarchy, page, buffer) nor the emitted blocks, whatever the
\* sizes of its lines.
C24_SkippedBlocks ==
    [][(AtBlock /\ NoText(CurBlock)) =>
          UNCHANGED <<curTitle, curSection, curSubsection,
                      aggHierarchy, aggPage, aggBuilder, blocks, headings>>]_vars

\* C24 witness: a text block of white space whose size classifies as a
\* heading was passed over while an aggregate was pending.
C24_Witness ==
    /\ AtBlock /\ j > 1
    /\ pages[i + 1][j - 1] = BlockW
    /\ classify(MaxSize(BlockW.Lines)) # ""
    /\ lastClass = "skip"
    /\ aggBuilder # <<>>
    /\ Processing("Body")

\* C25: the emitted blocks only grow at their end: every step keeps the
\* blocks emitted so far, in their places and with their hierarchy, text
\* and page, and the result of a successful run is the emitted sequence, so
\* that the blocks emitted at any step are a prefix of it.
C25_AppendOnly ==
    /\ []((pc = "done" /\ err = "") => ret = blocks)
    /\ [][/\ Len(blocks') >= Len(blocks)
          /\ SubSeq(blocks', 1, Len(blocks)) = blocks
          /\ SubSeq(blockParas', 1, Len(blockParas)) = blockParas]_vars

\* C25 witness: a later batch is being aggregated while a block emitted in
\* the first batch is still the first of the output.
C25_Witness ==
    /\ pc = "pass2" /\ loaded
    /\ Len(PassRequests(2)) = 2
    /\ Len(blocks) >= 1
    /\ blocks[1].PageNumber = 1
    /\ aggBuilder # <<>> /\ aggPage = 2
    /\ aggHierarchy # blocks[1].HeaderHierarchy

\* the blocks of a document in document order
RECURSIVE FlatBlocks(_)
FlatBlocks(d) ==
    IF d = <<>> THEN <<>>
    ELSE FlatBlocks(SubSeq(d, 1, Len(d) - 1)) \o d[Len(d)]

\* a block with text whose size reaches one of the thresholds of the run
IsHeadingBlock(blk) == ~NoText(blk) /\ classify(MaxSize(blk.Lines)) # ""

\* the texts of the Body blocks with text among the blocks k, k + 1, ... of
\* bs, in document order, leaving out those before the first heading block
\* unless one was seen earlier
RECURSIVE BodyFrom(_, _, _)
BodyFrom(bs, k, seen) ==
    IF k > Len(bs) THEN <<>>
    ELSE IF NoText(bs[k]) THEN BodyFrom(bs, k + 1, seen)
    ELSE IF IsHeadingBlock(bs[k]) THEN BodyFrom(bs, k + 1, TRUE)
    ELSE IF seen THEN <<BlockText(bs[k])>> \o BodyFrom(bs, k + 1, seen)
    ELSE BodyFrom(bs, k + 1, seen)

\* the texts of the Body blocks with text that stand after the first heading
\* block, in document order
BodyAfterHeading(bs) == BodyFrom(bs, 1, FALSE)

\* the paragraph texts of the emitted blocks in output order
RECURSIVE FlatParas(_)
FlatParas(bp) ==
    IF bp = <<>> THEN <<>>
    ELSE FlatParas(SubSeq(bp, 1, Len(bp) - 1)) \o ParaTexts(bp[Len(bp)])

\* C26: in a successful run the paragraphs of the returned blocks, taken in
\* output order, are exactly the texts of the Body blocks with text that
\* stand after the first heading block, in document order: none is lost,
\* doubled or moved, and nothing is left pending after the final flush.
C26_BodyConserved ==
    (pc = "done" /\ err = "") =>
        /\ aggBuilder = <<>> /\ aggParas = <<>>
        /\ Len(ret) = Len(blockParas)
        /\ \A k \in 1..Len(ret) :
              /\ blockParas[k] # <<>>
              /\ ret[k].Text = Join(ParaTexts(blockParas[k]), BlankLine)
        /\ FlatParas(blockParas) = BodyAfterHeading(FlatBlocks(doc))

\* C26 witness: the document ends with a Body block, which the final flush
\* emitted as the second block of the result.
C26_Witness ==
    /\ pc = "done" /\ err = ""
    /\ lastClass = "Body"
    /\ FlatBlocks(doc)[Len(FlatBlocks(doc))] = BlockY
    /\ Len(ret) = 2
    /\ Len(BodyAfterHeading(FlatBlocks(doc))) = 2
    /\ ret[2].Text = <<"x", " ", "y">>

\* the number of components of a heading path
Components(h) ==
    IF h = <<>> THEN 0 ELSE 1 + Cardinality({n \in 1..Len(h) : h[n] = "|"})

\* the positive font sizes 0.5, 1.0, ... 40.0
PositiveSizes == 1..(40 * Scale)

PagesInOrder(bl, p) ==
    /\ \A k \in 1..Len(bl) : bl[k].PageNumber \in 1..p
    /\ \A k \in 1..(Len(bl) - 1) : bl[k].PageNumber <= bl[k + 1].PageNumber

\* C28: the page number of every block emitted, and of every block a
\* successful run returns, lies between 1 and the number of pages of the
\* document, and the page numbers of the sequence never decrease.
C28_PageNumbers ==
    /\ PagesInOrder(blocks, Len(doc))
    /\ (aggBuilder # <<>>) =>
          /\ aggPage \in 1..Len(doc)
          /\ \A k \in 1..Len(blocks) : blocks[k].PageNumber <= aggPage
    /\ (pc = "done" /\ err = "") =>
          /\ pageCount = Len(doc)
          /\ PagesInOrder(ret, pageCount)

\* C28 witness: a successful run over two pages returned a block of page 1
\* followed by a block of page 2, the last page.
C28_Witness ==
    /\ pc = "done" /\ err = ""
    /\ pageCount = 2
    /\ Len(ret) = 2
    /\ ret[1].PageNumber = 1
    /\ ret[2].PageNumber = pageCount

\* goroutine g is inside the function passed to once.Do
InsideOnce(g) == dframes[g].at = "version"

\* C29: the search and the version check of discover run at most once in a
\* process, whatever the number of goroutines and calls; a call returns
\* only when they have completed, having run exactly once; all calls
\* return the same (path, error) pair, and after the function has run
\* neither the path nor the error changes, so a failed lookup is not
\* retried when the environment changes.
C29_DiscoverOnce ==
    /\ [](/\ ran.search <= 1 /\ ran.version <= ran.search
          /\ Cardinality(returned) <= 1
          /\ \A g \in Callers :
                dframes[g].calls > 0 =>
                    /\ <<dframes[g].path, dframes[g].err>> = <<binPath, binErr>>
                    /\ once.done /\ ran.search = 1)
    /\ [][/\ (returned' # returned) =>
                /\ once.done /\ once.m = 0
                /\ ran.search = 1
                /\ \A g \in Callers : ~InsideOnce(g)
          /\ once.done =>
                /\ once'.done
                /\ UNCHANGED <<binPath, binErr, ran>>]_vars

\* C29 witness: the lookup failed, mutool was installed afterwards, and both
\* goroutines have since called discover twice and got the failure.
C29_Witness ==
    /\ \A g \in Callers : dframes[g].calls = MaxCalls /\ dframes[g].err = ErrNoMutool
    /\ binPath = <<>>
    /\ Mutool \in environ.installed /\ environ.GOOS = "linux"
    /\ ran = [search |-> 1, version |-> 0]
====
